---- MODULE Spec2Model ----
(***************************************************************************)
(* A model of the Zettelkasten card store of B3Fileorganizer               *)
(* (b3fileorganizer/core/zettelkasten.py, ZettelkastenManager) and of its  *)
(* SQLite search projection (b3fileorganizer/core/zettel_indexer.py,       *)
(* ZettelIndexer).                                                         *)
(*                                                                         *)
(* Strings of the program that the code takes apart (ids, categories,      *)
(* titles) are sequences of one-character strings, so that concatenation,  *)
(* item[-1], split("/") and substring search are computed and not assumed. *)
(***************************************************************************)
EXTENDS Integers, Sequences, FiniteSets, TLC

\* ---------------------------------------------------------------- bounds
\* Largest value a bucket counter is driven to.
MaxCounter == 2
\* Largest number of children allocated under one parent (26 letters, then
\* the "aa" fallback twice).
MaxChildren == 28
\* Largest number of create_zettel_card calls in one behaviour.
MaxCards == 2

\* ------------------------------------------------------------ characters
\* range(26) of _get_next_subtopic_letter.
NumLetters == 26
\* chr(ord('a') + i) for i in range(26), 1-based.
Alphabet ==
  << "a", "b", "c", "d", "e", "f", "g", "h", "i", "j", "k", "l", "m",
     "n", "o", "p", "q", "r", "s", "t", "u", "v", "w", "x", "y", "z" >>

UpperCase == { "A", "B", "R", "Z" }

\* str.isalpha() on one character of the model's alphabet.
isalpha(c) == c \in { Alphabet[i] : i \in 1..Len(Alphabet) } \cup UpperCase

\* str.lower() on one character.
LowerChar(c) ==
  CASE c = "A" -> "a" [] c = "B" -> "b" [] c = "R" -> "r" [] c = "Z" -> "z"
    [] OTHER -> c

\* str.lower() on a string.
Lower(s) == [i \in 1..Len(s) |-> LowerChar(s[i])]

DigitChars == << "0", "1", "2", "3", "4", "5", "6", "7", "8", "9" >>

\* str(n) / f"{n}" for a natural number: its decimal digits.
RECURSIVE Str(_)
Str(n) == IF n < 10 THEN << DigitChars[n + 1] >>
          ELSE Str(n \div 10) \o << DigitChars[(n % 10) + 1] >>

\* item[-1]
Last(s) == s[Len(s)]

\* s.split("/")[0]: the characters before the first "/".
RECURSIVE SplitFirst(_)
SplitFirst(s) == IF s = << >> \/ Head(s) = "/" THEN << >>
                 ELSE << Head(s) >> \o SplitFirst(Tail(s))

\* "/" in s
HasSlash(s) == \E i \in 1..Len(s) : s[i] = "/"

\* needle in haystack (Python substring test).
IsSubstring(needle, hay) ==
  \E i \in 0..(Len(hay) - Len(needle)) :
     \A j \in 1..Len(needle) : hay[i + j] = needle[j]

\* ------------------------------------------------------------ categories
MAIN == << "m", "a", "i", "n" >>
FREQUENT == << "f", "r", "e", "q", "u", "e", "n", "t" >>
QUOTE == << "q", "u", "o", "t", "e" >>
SUBTOPIC == << "s", "u", "b", "t", "o", "p", "i", "c" >>
UNKNOWN == << "u", "n", "k", "n", "o", "w", "n" >>

\* ------------------------------------------------------ numbering rules
\* rule.get("increment_field", None) of a rule that has none.
NoField == "None"

\* _load_numbering_rules when the rules file is missing or malformed: {}.
RulesAbsent == [c \in {} |-> [prefix |-> << >>, increment_field |-> NoField]]

\* A rules file that restates the built-in buckets and lists the generic
\* subtopic category without an increment field.
RulesConfigured ==
  [c \in { MAIN, FREQUENT, QUOTE, SUBTOPIC } |->
     CASE c = MAIN -> [prefix |-> << >>, increment_field |-> "last_main_topic"]
       [] c = FREQUENT -> [prefix |-> << "A" >>, increment_field |-> "last_frequent"]
       [] c = QUOTE -> [prefix |-> << "Z" >>, increment_field |-> "last_quote"]
       [] OTHER -> [prefix |-> << >>, increment_field |-> NoField]]

\* A rules file whose rule for "main" names a counter the scheme does not have.
RulesBadField ==
  [c \in { MAIN } |-> [prefix |-> << >>, increment_field |-> "last_main"]]

RuleTables == { RulesAbsent, RulesConfigured, RulesBadField }

\* ----------------------------------------------------- numbering scheme
\* The scheme _initialize_structure writes when none is loaded.
EmptyScheme ==
  [ main_topics |-> << >>,
    subtopics |-> [p \in {} |-> << >>],
    frequently_accessed |-> << >>,
    quotes_excerpts |-> << >>,
    last_main_topic |-> 0,
    last_frequent |-> 0,
    last_quote |-> 0 ]

CounterFields == { "last_main_topic", "last_frequent", "last_quote" }

\* The scan "for i in range(26): if letter not in letters: return letter",
\* falling through to "aa".
RECURSIVE ScanLetters(_, _)
ScanLetters(i, letters) ==
  IF i >= NumLetters THEN << "a", "a" >>
  ELSE IF Alphabet[i + 1] \notin letters THEN << Alphabet[i + 1] >>
  ELSE ScanLetters(i + 1, letters)

\* A plausible slip: the letter after the last child's letter.
get_next_subtopic_letter_AfterLast(existing) ==
  IF existing = << >> THEN << "a" >>
  ELSE LET k == CHOOSE i \in 1..NumLetters : Alphabet[i] = Last(Last(existing))
       IN  IF k < NumLetters THEN << Alphabet[k + 1] >> ELSE << "a", "a" >>

get_next_subtopic_letter(existing) ==
  IF existing = << >> THEN << "a" >>
  ELSE LET letters == { Last(existing[i]) :
                          i \in { j \in 1..Len(existing) : isalpha(Last(existing[j])) } }
       IN  IF letters = {} THEN << "a" >> ELSE ScanLetters(0, letters)

\* numbering_scheme["subtopics"][parent].append(number), creating the list
\* when the parent has none.
AddChild(scheme, parent, number) ==
  LET old == scheme.subtopics
      kids == IF parent \in DOMAIN old THEN old[parent] ELSE << >>
  IN  [scheme EXCEPT !.subtopics =
         [p \in DOMAIN old \cup { parent } |->
            IF p = parent THEN Append(kids, number) ELSE old[p]]]

\* The subtopic branch: parent + next letter, appended to the parent's list.
AllocSubtopic(scheme, parent) ==
  LET kids == IF parent \in DOMAIN scheme.subtopics
              THEN scheme.subtopics[parent] ELSE << >>
      number == parent \o get_next_subtopic_letter(kids)
  IN  [raised |-> FALSE, number |-> number,
       scheme |-> AddChild(scheme, parent, number)]

\* A plausible slip: the number is built from the counter before the increment.
AllocCounter_StaleNumber(scheme, field, prefix, listField) ==
  LET number == prefix \o Str(scheme[field])
      bumped == [scheme EXCEPT ![field] = @ + 1]
  IN  [raised |-> FALSE, number |-> number,
       scheme |-> IF listField = NoField THEN bumped
                  ELSE [bumped EXCEPT ![listField] = Append(@, number)]]

\* A plausible slip: the number is not appended to the bucket's list.
AllocCounter_NoList(scheme, field, prefix, listField) ==
  LET n == scheme[field] + 1
  IN  [raised |-> FALSE, number |-> prefix \o Str(n),
       scheme |-> [scheme EXCEPT ![field] = n]]

\* A counter bucket: counter += 1, number = prefix + str(counter), appended
\* to the bucket's list when listField names one.
AllocCounter(scheme, field, prefix, listField) ==
  LET n == scheme[field] + 1
      number == prefix \o Str(n)
      bumped == [scheme EXCEPT ![field] = n]
  IN  [raised |-> FALSE, number |-> number,
       scheme |-> IF listField = NoField THEN bumped
                  ELSE [bumped EXCEPT ![listField] = Append(@, number)]]

\* The list a configured rule's category is tracked in.
ListFieldOf(category) ==
  CASE category = MAIN -> "main_topics"
    [] category = FREQUENT -> "frequently_accessed"
    [] category = QUOTE -> "quotes_excerpts"
    [] OTHER -> NoField

\* generate_zettel_number up to, not including, the final _save_metadata:
\* the number returned and the scheme in memory, or raised when the
\* statement "numbering_scheme[increment_field] += 1" throws.
generate_zettel_number(scheme, rls, category) ==
  IF category \in DOMAIN rls
  THEN LET rule == rls[category]
       IN  IF rule.increment_field # NoField
           THEN IF rule.increment_field \in CounterFields
                THEN AllocCounter(scheme, rule.increment_field, rule.prefix,
                                  ListFieldOf(category))
                ELSE [raised |-> TRUE, number |-> << >>, scheme |-> scheme]
           ELSE [raised |-> FALSE, number |-> UNKNOWN, scheme |-> scheme]
  ELSE IF category = SUBTOPIC /\ SUBTOPIC \in DOMAIN rls
  THEN AllocSubtopic(scheme, IF HasSlash(category) THEN SplitFirst(category)
                             ELSE << "1" >>)
  ELSE IF category = FREQUENT
  THEN AllocCounter(scheme, "last_frequent", << "A" >>, "frequently_accessed")
  ELSE IF category = QUOTE
  THEN AllocCounter(scheme, "last_quote", << "Z" >>, "quotes_excerpts")
  ELSE IF category = MAIN
  THEN AllocCounter(scheme, "last_main_topic", << >>, "main_topics")
  ELSE AllocSubtopic(scheme, SplitFirst(category))

\* ------------------------------------------------- persisted documents
\* A JSON document of the metadata folder: decodable with its data, absent,
\* or present and undecodable.
OkDoc(data) == [state |-> "ok", data |-> data]
AbsentDoc == [state |-> "absent", data |-> << >>]
CorruptDoc == [state |-> "corrupt", data |-> << >>]

\* What a _save_metadata call can do to the document: write it, fail in
\* open() and leave it as it was, or fail inside json.dump after open(.., 'w')
\* truncated it.
SaveOutcomes == { "ok", "unchanged", "truncated" }

\* _load_metadata: the decoded document, or the default when the file is
\* absent or json.load throws.
load_metadata(doc, default) ==
  IF doc.state = "ok" THEN doc.data ELSE default

\* _save_metadata: the document after the call. The exception is caught
\* and logged in every case; the caller sees no difference.
save_metadata(doc, data, outcome) ==
  CASE outcome = "ok" -> OkDoc(data)
    [] outcome = "unchanged" -> doc
    [] OTHER -> CorruptDoc

\* ------------------------------------------------------------ card text
\* str.strip(): leading and trailing blanks removed.
RECURSIVE LStrip(_)
LStrip(s) == IF s # << >> /\ Head(s) = " " THEN LStrip(Tail(s)) ELSE s

RECURSIVE RStrip(_)
RStrip(s) == IF s # << >> /\ Last(s) = " " THEN RStrip(SubSeq(s, 1, Len(s) - 1)) ELSE s

Strip(s) == RStrip(LStrip(s))

\* str.split(): the list of maximal blank-free runs.
RECURSIVE SplitWords(_, _)
SplitWords(s, word) ==
  IF s = << >> THEN (IF word = << >> THEN << >> ELSE << word >>)
  ELSE IF Head(s) = " "
       THEN (IF word = << >> THEN << >> ELSE << word >>) \o SplitWords(Tail(s), << >>)
       ELSE SplitWords(Tail(s), Append(word, Head(s)))

Words(s) == SplitWords(s, << >>)

Range(f) == { f[i] : i \in DOMAIN f }

\* t.strip().replace(' ', '_') with a leading "#".
Hashtag(t) ==
  << "#" >> \o [i \in 1..Len(Strip(t)) |->
                 IF Strip(t)[i] = " " THEN "_" ELSE Strip(t)[i]]

\* lst[:n]
Take(lst, n) == SubSeq(lst, 1, IF Len(lst) < n THEN Len(lst) ELSE n)

\* [Hashtag(t) for t in tags if t]
RECURSIVE TagHashtags(_)
TagHashtags(tags) ==
  IF tags = << >> THEN << >>
  ELSE (IF Head(tags) # << >> THEN << Hashtag(Head(tags)) >> ELSE << >>)
       \o TagHashtags(Tail(tags))

\* _generate_ai_thoughts: at most three hashtags from the tags and the
\* category, "#organization" when there are none. (The comment sentence is
\* a fixed template and is left out.)
generate_ai_thoughts(tags, category) ==
  LET fromTags == TagHashtags(tags)
      catTag == << "#" >> \o category
      all == IF category # << >> /\ catTag \notin Range(fromTags)
             THEN Append(fromTags, catTag) ELSE fromTags
  IN  IF all # << >> THEN Take(all, 3)
      ELSE << << "#", "o", "r", "g" >> >>

\* An optional list field of a CardIndex entry: the key is missing, holds
\* null, or holds a list.
MissingField == [st |-> "missing", items |-> << >>]
NullField == [st |-> "null", items |-> << >>]
ListField(items) == [st |-> "list", items |-> items]

\* info.get(key, []) on such a field: the default only replaces a missing key.
GetOrEmpty(field) == IF field.st = "missing" THEN ListField(<< >>) ELSE field

\* _find_zettel_connections: every other indexed card whose tags or title
\* words overlap the new card's, with its hashtags and its description
\* (the first seven words of title + ' ' + category). Dict order is left
\* out: the result is a set.
find_zettel_connections(index, number, title, tags) ==
  LET this_tags == Range(tags)
      this_title_words == Range(Words(Lower(title)))
  IN  { [ num |-> num,
          hashtags |-> Take(TagHashtags(GetOrEmpty(index[num].tags).items), 3),
          desc |-> Take(Words(index[num].title \o << " " >> \o index[num].category), 7) ]
        : num \in { n \in DOMAIN index :
                      /\ n # number
                      /\ \/ this_tags \cap Range(GetOrEmpty(index[n].tags).items) # {}
                         \/ this_title_words
                              \cap Range(Words(Lower(index[n].title))) # {} } }

\* _format_card_content: the sections of the Markdown document.
format_card_content(index, card) ==
  [ heading |-> << "#", " " >> \o card.title,
    number |-> card.number,
    category |-> card.category,
    created |-> card.created,
    modified |-> card.modified,
    summary |-> Strip(card.content),
    ai_hashtags |-> generate_ai_thoughts(card.tags, card.category),
    connections |-> find_zettel_connections(index, card.number, card.title, card.tags) ]

\* The folder create_zettel_card writes the card into.
FolderOf(category) ==
  IF category = FREQUENT THEN << "A" >>
  ELSE IF category = QUOTE THEN << "Z" >>
  ELSE IF HasSlash(category) THEN SplitFirst(category)
  ELSE category

\* folder_path / f"{zettel_number}.md"
CardFile(category, number) == [folder |-> FolderOf(category), name |-> number]

\* Path(extra_folder_path) / "00_zettel.md"
ExtraFile == [folder |-> << "E" >>, name |-> << "0", "0" >>]

\* ------------------------------------------------------ cross references
\* A plausible slip: the reverse link is not recorded.
LinkPair_OneWay(graph, source, target) ==
  LET g1 == IF source \in DOMAIN graph THEN graph
            ELSE [k \in DOMAIN graph \cup { source } |->
                    IF k = source THEN << >> ELSE graph[k]]
      g2 == IF target \in DOMAIN g1 THEN g1
            ELSE [k \in DOMAIN g1 \cup { target } |->
                    IF k = target THEN << >> ELSE g1[k]]
  IN  IF target \notin Range(g2[source])
      THEN [g2 EXCEPT ![source] = Append(@, target)] ELSE g2

\* A plausible slip: a target that has no adjacency list yet is skipped.
LinkPair_KnownTargetsOnly(graph, source, target) ==
  LET g1 == IF source \in DOMAIN graph THEN graph
            ELSE [k \in DOMAIN graph \cup { source } |->
                    IF k = source THEN << >> ELSE graph[k]]
      g3 == IF target \notin Range(g1[source])
            THEN [g1 EXCEPT ![source] = Append(@, target)] ELSE g1
  IN  IF target \notin DOMAIN g1 THEN g1
      ELSE IF source \notin Range(g3[target])
      THEN [g3 EXCEPT ![target] = Append(@, source)] ELSE g3

\* A plausible slip: the ids are appended without the membership tests.
LinkPair_NoCheck(graph, source, target) ==
  LET g1 == IF source \in DOMAIN graph THEN graph
            ELSE [k \in DOMAIN graph \cup { source } |->
                    IF k = source THEN << >> ELSE graph[k]]
      g2 == IF target \in DOMAIN g1 THEN g1
            ELSE [k \in DOMAIN g1 \cup { target } |->
                    IF k = target THEN << >> ELSE g1[k]]
      g3 == [g2 EXCEPT ![source] = Append(@, target)]
  IN  [g3 EXCEPT ![target] = Append(@, source)]

\* One pass of the loop of _add_cross_references: both adjacency lists are
\* created when absent, and each id is appended to the other's list unless
\* it is already there.
LinkPair(graph, source, target) ==
  LET g1 == IF source \in DOMAIN graph THEN graph
            ELSE [k \in DOMAIN graph \cup { source } |->
                    IF k = source THEN << >> ELSE graph[k]]
      g2 == IF target \in DOMAIN g1 THEN g1
            ELSE [k \in DOMAIN g1 \cup { target } |->
                    IF k = target THEN << >> ELSE g1[k]]
      g3 == IF target \notin Range(g2[source])
            THEN [g2 EXCEPT ![source] = Append(@, target)] ELSE g2
  IN  IF source \notin Range(g3[target])
      THEN [g3 EXCEPT ![target] = Append(@, source)] ELSE g3

\* _add_cross_references, the adjacency map after the loop.
RECURSIVE add_cross_references(_, _, _)
add_cross_references(graph, source, targets) ==
  IF targets = << >> THEN graph
  ELSE add_cross_references(LinkPair(graph, source, Head(targets)), source,
                            Tail(targets))

\* ----------------------------------------------------------------- state
VARIABLES
  rules,              \* self.zettel_numbering_rules
  numbering_scheme,   \* self.numbering_scheme
  cross_references,   \* self.cross_references: id -> list of ids
  card_index,         \* self.card_index: id -> entry
  disk,               \* numbering_scheme.json, cross_references.json, card_index.json
  files,              \* the card documents on disk: path -> document
  clock,              \* number of create_zettel_card calls so far (datetime.now())
  idx,                \* the ZettelIndexer handle: its card_index snapshot
  db,                 \* table zettel_index: zettel_number -> row
  result,             \* what the last call returned to its caller
  issued,             \* history: every id an allocation has returned
  e2e,                \* history: the calls of a store used only through
                      \* create_zettel_card(main), (main), ("1") since it was empty
  peer                \* a second ZettelkastenManager on the same folders: its
                      \* numbering_scheme, cross_references and card_index

vars == << rules, numbering_scheme, cross_references, card_index, disk, files,
           clock, idx, db, result, issued, e2e, peer >>

EmptyMap == [k \in {} |-> << >>]

\* No second instance has been constructed.
NoPeer ==
  [ open |-> FALSE, numbering_scheme |-> EmptyScheme,
    cross_references |-> EmptyMap, card_index |-> EmptyMap ]

\* The store constructed on empty folders: _initialize_structure has written
\* the empty scheme; the other documents do not exist yet. No indexer handle
\* is open and the table is empty.
Init ==
  /\ rules \in RuleTables
  /\ numbering_scheme = EmptyScheme
  /\ cross_references = EmptyMap
  /\ card_index = EmptyMap
  /\ disk = [scheme |-> OkDoc(EmptyScheme), graph |-> AbsentDoc, index |-> AbsentDoc]
  /\ files = EmptyMap
  /\ clock = 0
  /\ idx = [open |-> FALSE, card_index |-> EmptyMap]
  /\ db = EmptyMap
  /\ result = [op |-> "init"]
  /\ issued = {}
  /\ e2e = [live |-> TRUE, calls |-> << >>]
  /\ peer = NoPeer

\* The model's bounds on a scheme.
WithinBounds(scheme, maxKids) ==
  /\ \A f \in CounterFields : scheme[f] <= MaxCounter
  /\ \A p \in DOMAIN scheme.subtopics : Len(scheme.subtopics[p]) <= maxKids

\* m[k] = v
Put(m, k, v) == [x \in DOMAIN m \cup { k } |-> IF x = k THEN v ELSE m[x]]

\* The categories of the end-to-end scenario, in order.
Scenario == << MAIN, MAIN, << "1" >> >>

\* The scenario's history after a create_zettel_card call.
E2EAfterCreate(category, kind, number) ==
  IF e2e.live /\ Len(e2e.calls) < Len(Scenario)
     /\ category = Scenario[Len(e2e.calls) + 1]
  THEN [e2e EXCEPT !.calls = Append(@, [kind |-> kind, number |-> number])]
  ELSE IF e2e.live /\ Len(e2e.calls) = Len(Scenario) THEN e2e
  ELSE [live |-> FALSE, calls |-> << >>]

E2EOff == [live |-> FALSE, calls |-> << >>]

\* ------------------------------------------------------------- I/O plans
\* What the environment does to each I/O step of one create_zettel_card
\* call: the outcome of the three _save_metadata calls, and whether the
\* folder's mkdir, the card file's write and the mirror's mkdir+write succeed.
\* outs are the outcomes the saves may have and oks the successes the file
\* steps may have. Steps the call does not reach are fixed to success, so
\* that one behaviour of the call is one plan.
IOPlans(outs, oks, extra, xrefs) ==
  { p \in [ scheme : outs, mkdir : oks, write : oks, mirror : oks,
            graph : outs, index : outs ] :
      LET restOk == p.graph = "ok" /\ p.index = "ok"
      IN  /\ ~p.mkdir => (p.write /\ p.mirror /\ restOk)
          /\ ~p.write => (p.mirror /\ restOk)
          /\ ~p.mirror => (extra /\ restOk)
          /\ xrefs = << >> => p.graph = "ok" }

NoFaults ==
  [ scheme |-> "ok", mkdir |-> TRUE, write |-> TRUE, mirror |-> TRUE,
    graph |-> "ok", index |-> "ok" ]

\* The I/O steps of a plan that fail.
FailedSteps(p) ==
  { st \in { "scheme", "mkdir", "write", "mirror", "graph", "index" } :
      CASE st = "scheme" -> p.scheme # "ok"
        [] st = "mkdir" -> ~p.mkdir
        [] st = "write" -> ~p.write
        [] st = "mirror" -> ~p.mirror
        [] st = "graph" -> p.graph # "ok"
        [] OTHER -> p.index # "ok" }

\* ----------------------------------------------------- create_zettel_card
\* A plausible slip: the entry is stored with its two list fields, empty.
NewIndexEntry_WithLists(path, title, category, created) ==
  [ file_path |-> path, title |-> title, category |-> category,
    created |-> created, tags |-> ListField(<< >>),
    cross_references |-> ListField(<< >>) ]

\* The entry create_zettel_card stores in card_index.
NewIndexEntry(path, title, category, created) ==
  [ file_path |-> path, title |-> title, category |-> category,
    created |-> created, tags |-> MissingField, cross_references |-> MissingField ]

\* How a create_zettel_card call ends: an exception out of
\* generate_zettel_number or out of folder_path.mkdir (both before the try),
\* the error result of the except clause, or the card record.
CreateOutcome(raised, p, extra) ==
  IF raised THEN "raise_alloc"
  ELSE IF ~p.mkdir THEN "raise_mkdir"
  ELSE IF ~p.write THEN "error_write"
  ELSE IF extra /\ ~p.mirror THEN "error_mirror"
  ELSE "card"

\* A plausible slip: the failures of the file writes reach the caller too.
ResultKind_WritesRaise(outcome) ==
  IF outcome = "card" THEN "card" ELSE "raise"

\* The kind of result the caller gets for an outcome.
ResultKind(outcome) ==
  CASE outcome \in { "raise_alloc", "raise_mkdir" } -> "raise"
    [] outcome \in { "error_write", "error_mirror" } -> "error"
    [] OTHER -> "card"

\* The effects of one create_zettel_card call in the order its statements
\* perform them, up to the point where the call ends: the allocation with
\* its save of the scheme, the write of the card file, the write of the
\* mirror, the entry put into card_index, _add_cross_references with its
\* save of the graph, and last the save of card_index.
CreateLog(outcome, extra, xrefs) ==
  (IF outcome = "raise_alloc" THEN << >> ELSE << "save_scheme" >>)
  \o (IF outcome \in { "error_mirror", "card" } THEN << "write_card" >> ELSE << >>)
  \o (IF outcome = "card" /\ extra THEN << "write_mirror" >> ELSE << >>)
  \o (IF outcome = "card" THEN << "register" >> ELSE << >>)
  \o (IF outcome = "card" /\ xrefs # << >>
      THEN << "add_edges", "save_graph" >> ELSE << >>)
  \o (IF outcome = "card" THEN << "save_index" >> ELSE << >>)

\* create_zettel_card on the card store: everything the call does. The
\* search index is no part of it.
CreateCardStore(content, title, category, xrefs, tags, extra, p) ==
  LET alloc == generate_zettel_number(numbering_scheme, rules, category)
      number == alloc.number
      outcome == CreateOutcome(alloc.raised, p, extra)
      kind == ResultKind(outcome)
      now == clock + 1
      card == [ number |-> number, title |-> title, content |-> content,
                category |-> category, cross_references |-> xrefs, tags |-> tags,
                created |-> now, modified |-> now ]
      path == CardFile(category, number)
      text == format_card_content(card_index, card)
      index1 == Put(card_index, number, NewIndexEntry(path, title, category, now))
      graph1 == add_cross_references(cross_references, number, xrefs)
      files1 == IF outcome \in { "error_mirror", "card" }
                THEN Put(files, path, text) ELSE files
      files2 == IF outcome = "card" /\ extra THEN Put(files1, ExtraFile, text)
                ELSE files1
  IN  /\ clock' = now
      /\ rules' = rules
      /\ numbering_scheme' = IF alloc.raised THEN numbering_scheme ELSE alloc.scheme
      /\ files' = files2
      /\ card_index' = IF outcome = "card" THEN index1 ELSE card_index
      /\ cross_references' = IF outcome = "card" THEN graph1 ELSE cross_references
      /\ disk' =
           [ scheme |-> IF alloc.raised THEN disk.scheme
                        ELSE save_metadata(disk.scheme, alloc.scheme, p.scheme),
             graph |-> IF outcome = "card" /\ xrefs # << >>
                       THEN save_metadata(disk.graph, graph1, p.graph)
                       ELSE disk.graph,
             index |-> IF outcome = "card"
                       THEN save_metadata(disk.index, index1, p.index)
                       ELSE disk.index ]
      /\ issued' = IF alloc.raised THEN issued ELSE issued \cup { number }
      /\ result' = [ op |-> "create", kind |-> kind, outcome |-> outcome,
                     card |-> IF kind = "card" THEN card ELSE [error |-> outcome],
                     category |-> category, number |-> number,
                     log |-> CreateLog(outcome, extra, xrefs),
                     failed |-> IF alloc.raised THEN {} ELSE FailedSteps(p),
                     reissued |-> (~alloc.raised /\ number \in issued) ]
      /\ e2e' = E2EAfterCreate(category, kind, number)

\* ------------------------------------------------ generate_zettel_number
\* A direct call of generate_zettel_number: the scheme is changed in memory
\* and then saved, whatever the save does.
Allocate(category, out, maxKids) ==
  LET alloc == generate_zettel_number(numbering_scheme, rules, category)
  IN  /\ WithinBounds(alloc.scheme, maxKids)
      /\ numbering_scheme' = IF alloc.raised THEN numbering_scheme ELSE alloc.scheme
      /\ disk' = IF alloc.raised THEN disk
                 ELSE [disk EXCEPT !.scheme = save_metadata(@, alloc.scheme, out)]
      /\ issued' = IF alloc.raised THEN issued ELSE issued \cup { alloc.number }
      /\ result' = [ op |-> "allocate", category |-> category,
                     kind |-> IF alloc.raised THEN "raise" ELSE "id",
                     number |-> alloc.number,
                     existing |-> IF SplitFirst(category) \in DOMAIN numbering_scheme.subtopics
                                  THEN numbering_scheme.subtopics[SplitFirst(category)]
                                  ELSE << >>,
                     reissued |-> (~alloc.raised /\ alloc.number \in issued),
                     saved |-> out = "ok" ]
      /\ e2e' = E2EOff
      /\ UNCHANGED << rules, cross_references, card_index, files, clock, idx, db, peer >>

\* expand_thematic_structure: a new main topic when base_topic is not one,
\* then the next subtopic under it; the scheme is saved.
ExpandThematic(base_topic, out, maxKids) ==
  LET known == base_topic \in Range(numbering_scheme.main_topics)
      s1 == IF known THEN numbering_scheme
            ELSE AllocCounter(numbering_scheme, "last_main_topic", << >>,
                              "main_topics").scheme
      base == IF known THEN base_topic ELSE Str(s1.last_main_topic)
      sub == AllocSubtopic(s1, base)
  IN  /\ WithinBounds(sub.scheme, maxKids)
      /\ numbering_scheme' = sub.scheme
      /\ disk' = [disk EXCEPT !.scheme = save_metadata(@, sub.scheme, out)]
      /\ issued' = issued \cup { sub.number } \cup (IF known THEN {} ELSE { base })
      /\ result' = [ op |-> "expand", kind |-> "id", number |-> sub.number,
                     base |-> base, newBase |-> ~known,
                     reissued |-> (sub.number \in issued \/ (~known /\ base \in issued)),
                     saved |-> out = "ok" ]
      /\ e2e' = E2EOff
      /\ UNCHANGED << rules, cross_references, card_index, files, clock, idx, db, peer >>

\* ------------------------------------------------------------- __init__
\* A new ZettelkastenManager on the same folders (the process restarts):
\* the three documents are loaded, and an empty or unloadable scheme is
\* replaced by the empty scheme, which is saved at once.
Reload(out) ==
  LET loaded == load_metadata(disk.scheme, << >>)
      fresh == disk.scheme.state # "ok"
  IN  /\ cross_references' = load_metadata(disk.graph, EmptyMap)
      /\ card_index' = load_metadata(disk.index, EmptyMap)
      /\ numbering_scheme' = IF fresh THEN EmptyScheme ELSE loaded
      /\ disk' = IF fresh
                 THEN [disk EXCEPT !.scheme = save_metadata(@, EmptyScheme, out)]
                 ELSE disk
      /\ result' = [ op |-> "reload", fresh |-> fresh ]
      /\ e2e' = E2EOff
      /\ UNCHANGED << rules, files, clock, idx, db, issued, peer >>

\* ------------------------------------------------- get_card, search_cards
\* A plausible slip: only the tags are normalized.
Normalize_TagsOnly(entry) ==
  [entry EXCEPT !.tags = IF @.st = "list" THEN @ ELSE ListField(<< >>)]

\* "if card_info.get(key) is None: card_info[key] = []" for both list fields.
Normalize(entry) ==
  [entry EXCEPT
     !.tags = IF @.st = "list" THEN @ ELSE ListField(<< >>),
     !.cross_references = IF @.st = "list" THEN @ ELSE ListField(<< >>)]

\* A plausible slip: get_card saves the card index after normalizing.
GetCard_Saves(id) ==
  LET found == id \in DOMAIN card_index
      index1 == IF found THEN [card_index EXCEPT ![id] = Normalize(@)]
                ELSE card_index
  IN  /\ card_index' = index1
      /\ disk' = [disk EXCEPT !.index = save_metadata(@, index1, "ok")]
      /\ result' = [ op |-> "get_card", id |-> id, found |-> found,
                     value |-> IF found THEN Normalize(card_index[id])
                               ELSE [none |-> TRUE] ]
      /\ UNCHANGED << rules, numbering_scheme, cross_references, files,
                      clock, idx, db, issued, e2e, peer >>

\* get_card: None for an unknown id, else the entry itself, its list fields
\* normalized in place.
GetCard(id) ==
  LET found == id \in DOMAIN card_index
  IN  /\ card_index' = IF found THEN [card_index EXCEPT ![id] = Normalize(@)]
                       ELSE card_index
      /\ result' = [ op |-> "get_card", id |-> id, found |-> found,
                     value |-> IF found THEN Normalize(card_index[id])
                               ELSE [none |-> TRUE] ]
      /\ UNCHANGED << rules, numbering_scheme, cross_references, disk, files,
                      clock, idx, db, issued, e2e, peer >>

\* card_info.get('content', ''): entries are written without that key.
EntryContent(entry) == << >>

\* search_cards: every entry is normalized in place; those whose title or
\* content contains the query, case-folded, are returned. Dict order is
\* left out: the result is a set of ids with their entries.
SearchCards(query) ==
  LET hit(id) == \/ IsSubstring(Lower(query), Lower(card_index[id].title))
                 \/ IsSubstring(Lower(query), Lower(EntryContent(card_index[id])))
  IN  /\ card_index' = [id \in DOMAIN card_index |-> Normalize(card_index[id])]
      /\ result' = [ op |-> "search_cards", query |-> query,
                     values |-> { [id |-> id, value |-> Normalize(card_index[id])] :
                                    id \in { i \in DOMAIN card_index : hit(i) } } ]
      /\ UNCHANGED << rules, numbering_scheme, cross_references, disk, files,
                      clock, idx, db, issued, e2e, peer >>

\* ------------------------------------------------------------- JSON text
\* ", ".join(items)
RECURSIVE JoinItems(_)
JoinItems(items) ==
  IF items = << >> THEN << >>
  ELSE << "\"" >> \o Head(items) \o << "\"" >>
       \o (IF Tail(items) = << >> THEN << >> ELSE << ",", " " >>)
       \o JoinItems(Tail(items))

\* json.dumps(meta.get(key, [])): "null" for a null, else the list's text.
JsonDumps(field) ==
  IF GetOrEmpty(field).st = "null" THEN << "n", "u", "l", "l" >>
  ELSE << "[" >> \o JoinItems(GetOrEmpty(field).items) \o << "]" >>

\* The characters of s before the first double quote.
RECURSIVE UntilQuote(_)
UntilQuote(s) == IF s = << >> \/ Head(s) = "\"" THEN << >>
                 ELSE << Head(s) >> \o UntilQuote(Tail(s))

\* The quoted strings of the inside of a JSON list of strings.
RECURSIVE ParseItems(_)
ParseItems(s) ==
  IF s = << >> THEN << >>
  ELSE IF Head(s) = "\""
       THEN LET item == UntilQuote(Tail(s))
            IN  << item >> \o ParseItems(SubSeq(s, Len(item) + 3, Len(s)))
       ELSE ParseItems(Tail(s))

\* json.loads of a text written by JsonDumps.
JsonLoads(text) ==
  IF text = << "n", "u", "l", "l" >> THEN NullField
  ELSE ListField(ParseItems(SubSeq(text, 2, Len(text) - 1)))

\* --------------------------------------------------------- ZettelIndexer
\* The row index_all and update_card write for one card_index entry: the
\* title falls back to the first non-blank line of the card file, and the
\* preview is the file's first ten lines, which are its header (heading,
\* number, category, created, modified); a missing file gives an empty one.
IndexRow(meta) ==
  LET exists == meta.file_path \in DOMAIN files
      title == IF meta.title = << >> /\ exists
               THEN Strip(files[meta.file_path].heading) ELSE meta.title
  IN  [ title |-> title,
        category |-> meta.category,
        tags |-> JsonDumps(meta.tags),
        cross_references |-> JsonDumps(meta.cross_references),
        file_path |-> meta.file_path,
        content_preview |->
          IF exists
          THEN << files[meta.file_path].heading, files[meta.file_path].number,
                  files[meta.file_path].category, files[meta.file_path].created,
                  files[meta.file_path].modified >>
          ELSE << >> ]

\* ZettelIndexer.__init__: the table persists; the handle takes its own copy
\* of card_index.json, once. _load_card_index has no try: an undecodable
\* document makes the constructor throw and no handle is made.
OpenIndexer ==
  /\ idx' = IF disk.index.state = "corrupt" THEN idx
            ELSE [open |-> TRUE, card_index |-> load_metadata(disk.index, EmptyMap)]
  /\ result' = [ op |-> "open_indexer",
                 kind |-> IF disk.index.state = "corrupt" THEN "raise" ELSE "ok" ]
  /\ UNCHANGED << rules, numbering_scheme, cross_references, card_index, disk,
                  files, clock, db, issued, e2e, peer >>

\* A plausible slip: the rebuild does not clear the table first.
IndexAll_NoDelete ==
  /\ idx.open
  /\ db' = [id \in DOMAIN db \cup DOMAIN idx.card_index |->
              IF id \in DOMAIN idx.card_index THEN IndexRow(idx.card_index[id])
              ELSE db[id]]
  /\ result' = [ op |-> "index_all",
                 purged |-> DOMAIN db \ DOMAIN idx.card_index ]
  /\ UNCHANGED << rules, numbering_scheme, cross_references, card_index, disk,
                  files, clock, idx, issued, e2e, peer >>

\* index_all: DELETE, then one REPLACE per entry of the handle's card_index.
\* (purged: the ids whose rows the DELETE removed and no REPLACE wrote again.)
IndexAll ==
  /\ idx.open
  /\ db' = [id \in DOMAIN idx.card_index |-> IndexRow(idx.card_index[id])]
  /\ result' = [ op |-> "index_all",
                 purged |-> DOMAIN db \ DOMAIN idx.card_index ]
  /\ UNCHANGED << rules, numbering_scheme, cross_references, card_index, disk,
                  files, clock, idx, issued, e2e, peer >>

\* update_card: nothing when the handle's card_index has no such id, else
\* one REPLACE.
UpdateCard(id) ==
  /\ idx.open
  /\ db' = IF id \in DOMAIN idx.card_index
           THEN Put(db, id, IndexRow(idx.card_index[id]))
           ELSE db
  /\ result' = [ op |-> "update_card", id |-> id ]
  /\ UNCHANGED << rules, numbering_scheme, cross_references, card_index, disk,
                  files, clock, idx, issued, e2e, peer >>

\* title LIKE '%q%' OR category LIKE '%q%' OR tags LIKE '%q%'; LIKE folds
\* the case of ASCII letters.
RowMatches(row, query) ==
  \/ IsSubstring(Lower(query), Lower(row.title))
  \/ IsSubstring(Lower(query), Lower(row.category))
  \/ IsSubstring(Lower(query), Lower(row.tags))

\* The dict search and get_card build from a row.
RowResult(id, row) ==
  [ zettel_number |-> id, title |-> row.title, category |-> row.category,
    tags |-> JsonLoads(row.tags),
    cross_references |-> JsonLoads(row.cross_references),
    file_path |-> row.file_path, content_preview |-> row.content_preview ]

\* The ids search returns for a query on the current table.
SearchIds(query) == { id \in DOMAIN db : RowMatches(db[id], query) }

\* ZettelIndexer.search
Search(query) ==
  /\ idx.open
  /\ result' = [ op |-> "search", query |-> query,
                 rows |-> { RowResult(id, db[id]) : id \in SearchIds(query) } ]
  /\ UNCHANGED << rules, numbering_scheme, cross_references, card_index, disk,
                  files, clock, idx, db, issued, e2e, peer >>

\* ZettelIndexer.get_card
IndexGetCard(id) ==
  /\ idx.open
  /\ result' = [ op |-> "index_get_card", id |-> id, found |-> id \in DOMAIN db,
                 row |-> IF id \in DOMAIN db THEN RowResult(id, db[id])
                         ELSE [none |-> TRUE] ]
  /\ UNCHANGED << rules, numbering_scheme, cross_references, card_index, disk,
                  files, clock, idx, db, issued, e2e, peer >>

\* ------------------------------------------------- _add_cross_references
\* A call of _add_cross_references: nothing at all for an empty target list,
\* else the loop over the targets and one save of the adjacency map.
AddCrossReferences(source, targets, out) ==
  LET graph1 == add_cross_references(cross_references, source, targets)
  IN  /\ cross_references' = graph1
      /\ disk' = IF targets = << >> THEN disk
                 ELSE [disk EXCEPT !.graph = save_metadata(@, graph1, out)]
      /\ result' = [ op |-> "add_cross_references", source |-> source,
                     targets |-> targets, before |-> cross_references ]
      /\ e2e' = E2EOff
      /\ UNCHANGED << rules, numbering_scheme, card_index, files, clock, idx,
                      db, issued, peer >>

\* --------------------------------------------- find_thematic_connections
\* A character the pattern \w matches.
IsWordChar(c) == isalpha(c) \/ c \in Range(DigitChars) \/ c = "_"

\* re.findall(r'\b\w+\b', s): the maximal runs of word characters.
RECURSIVE FindWords(_, _)
FindWords(s, word) ==
  IF s = << >> THEN (IF word = << >> THEN << >> ELSE << word >>)
  ELSE IF ~IsWordChar(Head(s))
       THEN (IF word = << >> THEN << >> ELSE << word >>) \o FindWords(Tail(s), << >>)
       ELSE FindWords(Tail(s), Append(word, Head(s)))

\* set(re.findall(r'\b\w+\b', s.lower()))
WordSet(s) == Range(FindWords(Lower(s), << >>))

\* list(self.card_index.keys()): the ids in the order they were registered,
\* which is the order of their creation times.
RECURSIVE KeysList(_, _)
KeysList(index, ids) ==
  IF ids = {} THEN << >>
  ELSE LET first == CHOOSE a \in ids :
                      \A b \in ids : index[a].created <= index[b].created
       IN  << first >> \o KeysList(index, ids \ { first })

\* The loop of find_thematic_connections over the candidates: those that
\* are in card_index and whose title shares two or more words with the text.
RECURSIVE ThematicMatches(_, _, _)
ThematicMatches(index, content_words, cards) ==
  IF cards = << >> THEN << >>
  ELSE (IF /\ Head(cards) \in DOMAIN index
           /\ Cardinality(content_words \cap WordSet(index[Head(cards)].title)) >= 2
        THEN << Head(cards) >> ELSE << >>)
       \o ThematicMatches(index, content_words, Tail(cards))

\* find_thematic_connections: "if not existing_cards" replaces None and the
\* empty list alike by every id of card_index.
find_thematic_connections(index, content, existing_cards) ==
  LET cards == IF existing_cards = << >> THEN KeysList(index, DOMAIN index)
               ELSE existing_cards
  IN  ThematicMatches(index, WordSet(content), cards)

FindThematic(content, existing_cards) ==
  /\ result' = [ op |-> "find_thematic", content |-> content,
                 candidates |-> existing_cards,
                 value |-> find_thematic_connections(card_index, content,
                                                     existing_cards) ]
  /\ UNCHANGED << rules, numbering_scheme, cross_references, card_index, disk,
                  files, clock, idx, db, issued, e2e, peer >>

\* ---------------------------------- _find_zettel_connections, statistics
\* A call of _find_zettel_connections for a card record (the decoration
\* pass): it reads card_index and returns the matches.
FindZettelConnections(number, title, tags) ==
  /\ result' = [ op |-> "find_zettel_connections", number |-> number,
                 value |-> find_zettel_connections(card_index, number, title, tags) ]
  /\ UNCHANGED << rules, numbering_scheme, cross_references, card_index, disk,
                  files, clock, idx, db, issued, e2e, peer >>

\* sum(len(subtopics) for subtopics in numbering_scheme["subtopics"].values())
RECURSIVE SumLens(_, _)
SumLens(subtopics, parents) ==
  IF parents = {} THEN 0
  ELSE LET p == CHOOSE x \in parents : TRUE
       IN  Len(subtopics[p]) + SumLens(subtopics, parents \ { p })

\* The folders __init__ and _initialize_structure make under the base path.
BaseFolders ==
  { << "1" >>, << "2" >>, << "3" >>, << "4" >>, << "5" >>, << "A" >>, << "Z" >>,
    << "_", "m" >> }   \* "_metadata"

\* list_directories: the folders under the base path, those of the cards
\* included. Listing order is left out: the result is a set.
list_directories ==
  BaseFolders \cup { f.folder : f \in DOMAIN files \ { ExtraFile } }

\* get_statistics
GetStatistics ==
  /\ result' = [ op |-> "get_statistics",
                 value |->
                   [ total_cards |-> Cardinality(DOMAIN card_index),
                     main_topics |-> Len(numbering_scheme.main_topics),
                     frequently_accessed |-> Len(numbering_scheme.frequently_accessed),
                     quotes_excerpts |-> Len(numbering_scheme.quotes_excerpts),
                     cross_references |-> Cardinality(DOMAIN cross_references),
                     subtopics |-> SumLens(numbering_scheme.subtopics,
                                           DOMAIN numbering_scheme.subtopics),
                     directories |-> list_directories ] ]
  /\ UNCHANGED << rules, numbering_scheme, cross_references, card_index, disk,
                  files, clock, idx, db, issued, e2e, peer >>

\* ----------------------------------- create_zettel_card and the index
\* A plausible slip: the new card is put into the search index at once.
CreateCard_AutoIndex(content, title, category, xrefs, tags, extra, p) ==
  LET number == generate_zettel_number(numbering_scheme, rules, category).number
      entry == NewIndexEntry(CardFile(category, number), title, category,
                             clock + 1)
  IN  /\ CreateCardStore(content, title, category, xrefs, tags, extra, p)
      /\ db' = Put(db, number, IndexRow(entry))
      /\ UNCHANGED << idx, peer >>

\* create_zettel_card: the call has no access to a ZettelIndexer; the handle
\* and the table are left as they are.
CreateCard(content, title, category, xrefs, tags, extra, p) ==
  /\ CreateCardStore(content, title, category, xrefs, tags, extra, p)
  /\ UNCHANGED << idx, db, peer >>

\* ------------------------------------------------------ a second instance
\* A plausible slip: a call re-reads the persisted document before it works.
InstanceData_Reread(inMemory, doc) == load_metadata(doc, inMemory)

\* The data a call of an instance works on: the copy the instance loaded in
\* __init__ and has kept in memory since; the document is not read again.
InstanceData(inMemory, doc) == inMemory

\* A second ZettelkastenManager is constructed on the same folders while the
\* first is alive: it loads the three documents as __init__ does.
OpenPeer(out) ==
  LET fresh == disk.scheme.state # "ok"
  IN  /\ peer' = [ open |-> TRUE,
                   numbering_scheme |-> IF fresh THEN EmptyScheme
                                        ELSE load_metadata(disk.scheme, << >>),
                   cross_references |-> load_metadata(disk.graph, EmptyMap),
                   card_index |-> load_metadata(disk.index, EmptyMap) ]
      /\ disk' = IF fresh
                 THEN [disk EXCEPT !.scheme = save_metadata(@, EmptyScheme, out)]
                 ELSE disk
      /\ result' = [ op |-> "open_peer", fresh |-> fresh ]
      /\ e2e' = E2EOff
      /\ UNCHANGED << rules, numbering_scheme, cross_references, card_index,
                      files, clock, idx, db, issued >>

\* generate_zettel_number on the second instance. (first: the id and the
\* category of the first instance's allocation when that was the call just
\* before and both instances held the same scheme before it.)
\* A call that raises changes nothing and is left out.
PeerAllocate(category, out, maxKids) ==
  LET mine == InstanceData(peer.numbering_scheme, disk.scheme)
      alloc == generate_zettel_number(mine, rules, category)
      raced == /\ result.op = "allocate" /\ result.kind = "id"
               /\ numbering_scheme
                    = generate_zettel_number(peer.numbering_scheme, rules,
                                             result.category).scheme
  IN  /\ peer.open
      /\ ~alloc.raised
      /\ WithinBounds(alloc.scheme, maxKids)
      /\ peer' = [peer EXCEPT !.numbering_scheme = alloc.scheme]
      /\ disk' = [disk EXCEPT !.scheme = save_metadata(@, alloc.scheme, out)]
      /\ issued' = issued \cup { alloc.number }
      /\ result' = [ op |-> "peer_allocate", category |-> category,
                     kind |-> "id", number |-> alloc.number,
                     reissued |-> alloc.number \in issued,
                     raced |-> raced,
                     first |-> IF raced
                               THEN [ category |-> result.category,
                                      number |-> result.number ]
                               ELSE [ category |-> << >>, number |-> << >> ] ]
      /\ e2e' = E2EOff
      /\ UNCHANGED << rules, numbering_scheme, cross_references, card_index,
                      files, clock, idx, db >>

\* _add_cross_references on the second instance. (first: the call of the
\* first instance when that was the call just before and both instances held
\* the same adjacency map before it.)
PeerAddCrossReferences(source, targets, out) ==
  LET mine == InstanceData(peer.cross_references, disk.graph)
      graph1 == add_cross_references(mine, source, targets)
      raced == /\ result.op = "add_cross_references"
               /\ result.targets # << >>
               /\ result.before = peer.cross_references
  IN  /\ peer.open
      /\ targets # << >>
      /\ peer' = [peer EXCEPT !.cross_references = graph1]
      /\ disk' = [disk EXCEPT !.graph = save_metadata(@, graph1, out)]
      /\ result' = [ op |-> "peer_add_cross_references", source |-> source,
                     targets |-> targets, before |-> peer.cross_references,
                     raced |-> raced,
                     first |-> IF raced
                               THEN [ source |-> result.source,
                                      targets |-> result.targets ]
                               ELSE [ source |-> << >>, targets |-> << >> ] ]
      /\ e2e' = E2EOff
      /\ UNCHANGED << rules, numbering_scheme, cross_references, card_index,
                      files, clock, idx, db, issued >>

\* ---------------------------------------------------------------- inputs
\* Largest number of children under one parent where the store is driven
\* through create_zettel_card or across restarts.
MaxKids == 2
\* Largest number of create_zettel_card calls in the end-to-end scenario.
MaxScenarioCards == 3

Contents == { << "r", "i" >> }
Titles == { << "R", "a" >>, << "a", " ", "b" >> }
Queries == { << "r" >>, << "B" >> }
Tags == << << "t" >> >>
ReadIds == { << "1" >>, << "2" >> }
FailingOutcomes == { "ok", "unchanged" }

\* One create_zettel_card call with inputs from the given sets, within the
\* model's bounds.
CreateStep(categories, titles, xrefLists, tagLists, extras, outs, oks, maxCards) ==
  \E content \in Contents, title \in titles, category \in categories,
     xrefs \in xrefLists, tags \in tagLists, extra \in extras :
    \E p \in IOPlans(outs, oks, extra, xrefs) :
       /\ clock < maxCards
       /\ WithinBounds(generate_zettel_number(numbering_scheme, rules, category).scheme,
                       MaxKids)
       /\ CreateCard(content, title, category, xrefs, tags, extra, p)

\* ----------------------------------------------------------- allocator
\* The allocator alone, on a store whose saves succeed.
NextAlloc ==
  \E c \in { MAIN, FREQUENT, QUOTE, << "3" >>, << "3", "/", "x" >> } :
     Allocate(c, "ok", MaxChildren)

SpecAlloc == Init /\ [][NextAlloc]_vars

\* The allocator across restarts of the store, with saves that can fail.
NextReload ==
  \/ \E c \in { MAIN, FREQUENT, QUOTE }, out \in SaveOutcomes :
       Allocate(c, out, MaxKids)
  \/ \E out \in SaveOutcomes : Reload(out)

SpecReload == Init /\ [][NextReload]_vars

\* ----------------------------------------------------------- card store
\* create_zettel_card under I/O failures, and restarts of the store.
Next ==
  \/ CreateStep({ MAIN, << "1" >> }, { << "R", "a" >> },
                { << >>, << << "1" >> >> }, { Tags }, BOOLEAN,
                FailingOutcomes, BOOLEAN, MaxCards)
  \/ \E out \in FailingOutcomes : Reload(out)

Spec == Init /\ [][Next]_vars

\* The end-to-end scenario and its neighbours, under I/O failures.
NextE2E ==
  CreateStep({ MAIN, << "1" >> }, { << "R", "a" >> }, { << >> }, { Tags },
             { FALSE }, FailingOutcomes, BOOLEAN, MaxScenarioCards)

SpecE2E == Init /\ [][NextE2E]_vars

\* The cross-reference graph: cards linking to earlier, later, missing ids
\* and themselves, with graph saves that can fail, across restarts.
NextGraph ==
  \/ CreateStep({ MAIN }, { << "R", "a" >> },
                { << >>, << << "2" >>, << "1" >> >>, << << "9" >> >> },
                { Tags }, { FALSE }, SaveOutcomes, { TRUE }, MaxCards)
  \/ Reload("ok")

SpecGraph == Init /\ [][NextGraph]_vars

\* Reading cards back: get_card and search_cards on a store without I/O
\* failures.
NextRead ==
  \/ CreateStep({ MAIN, FREQUENT }, Titles, { << >> }, { << >>, Tags },
                { FALSE }, { "ok" }, { TRUE }, MaxCards)
  \/ \E id \in ReadIds \cup { << "A", "1" >> } : GetCard(id)
  \/ \E q \in Queries : SearchCards(q)
  \/ Reload("ok")

SpecRead == Init /\ [][NextRead]_vars

\* --------------------------------------------------------- search index
\* The card store and one search index on it, without I/O failures.
NextIndex ==
  \/ CreateStep({ MAIN }, Titles, { << >> }, { Tags }, { FALSE }, { "ok" },
                { TRUE }, MaxCards)
  \/ OpenIndexer
  \/ IndexAll
  \/ \E id \in ReadIds : UpdateCard(id)
  \/ \E q \in Queries : Search(q)
  \/ \E id \in ReadIds : IndexGetCard(id)

SpecIndex == Init /\ [][NextIndex]_vars

\* ================================================================ claims
IsDigit(c) == c \in Range(DigitChars)

\* An id of a counter bucket: it ends with the counter's digits.
IsCounterId(id) == id # << >> /\ IsDigit(Last(id))

\* The counter an id of a counter bucket carries, and the prefix before it.
RECURSIVE IdCounter(_)
IdCounter(id) ==
  IF id = << >> \/ ~IsDigit(Last(id)) THEN 0
  ELSE IdCounter(SubSeq(id, 1, Len(id) - 1)) * 10
       + (CHOOSE d \in 0..9 : DigitChars[d + 1] = Last(id))

RECURSIVE IdPrefix(_)
IdPrefix(id) ==
  IF id = << >> \/ ~IsDigit(Last(id)) THEN id
  ELSE IdPrefix(SubSeq(id, 1, Len(id) - 1))

CounterBuckets == { MAIN, FREQUENT, QUOTE }

\* C1: in every counter bucket (main, frequently-accessed, quote), over any
\* sequence of allocations interleaved with restarts of the store from its
\* persisted scheme, the id an allocation returns was never returned before
\* and carries a larger counter than every id the bucket has issued.
C1_MonotonicAcrossReloads ==
  (result.op = "allocate" /\ result.kind = "id" /\ result.category \in CounterBuckets)
    => /\ ~result.reissued
       /\ \A id \in issued \ { result.number } :
            (IsCounterId(id) /\ IdPrefix(id) = IdPrefix(result.number))
              => IdCounter(id) < IdCounter(result.number)

\* C2: ids are unique across all buckets: no allocation, in a counter bucket
\* or under a parent (with any number of children, more than 26 included),
\* returns an id that an earlier allocation returned.
C2_IdsUniqueAcrossBuckets ==
  (result.op = "allocate" /\ result.kind = "id") => ~result.reissued

\* B is in the adjacency list of A iff A is in the adjacency list of B.
Symmetric(graph) ==
  \A a \in DOMAIN graph : \A b \in Range(graph[a]) :
     b \in DOMAIN graph /\ a \in Range(graph[b])

\* C3: after any sequence of card creations with cross-references, starting
\* from an empty graph, the adjacency map is symmetric, in memory and in the
\* persisted graph document.
C3_GraphSymmetric ==
  /\ Symmetric(cross_references)
  /\ disk.graph.state = "ok" => Symmetric(disk.graph.data)

\* C3's case: a card was created with a cross-reference to another id, and
\* each lists the other.
C3_Witness ==
  /\ result.op = "create" /\ result.kind = "card"
  /\ \E a \in DOMAIN cross_references : \E b \in Range(cross_references[a]) :
       a # b /\ a = result.card.number /\ a \in Range(cross_references[b])

\* Both list fields of a returned record are present and hold a list.
HasLists(entry) ==
  /\ { "tags", "cross_references" } \subseteq DOMAIN entry
  /\ entry.tags.st = "list"
  /\ entry.cross_references.st = "list"

\* C4: for every id registered by create_zettel_card, get_card returns a
\* record whose tag and cross-reference fields are present and hold a list,
\* and every record search_cards returns is normalized the same way.
C4_ListsNeverMissing ==
  /\ (result.op = "get_card" /\ result.id \in issued)
       => (result.found /\ HasLists(result.value))
  /\ result.op = "search_cards" => \A r \in result.values : HasLists(r.value)

\* C4's case: get_card on a created card whose entry was stored without the
\* two fields, which come back as empty lists.
C4_Witness ==
  /\ result.op = "get_card" /\ result.id \in issued /\ result.found
  /\ result.value.tags = ListField(<< >>)
  /\ result.value.cross_references = ListField(<< >>)

\* The content a card was created with, as its document holds it.
CreatedContent(entry) == files[entry.file_path].summary

\* C5: after a successful create_zettel_card(content, title), get_card of the
\* returned number is a record with a 'content' field that contains the
\* content passed at creation.
C5_GetCardHasContent ==
  (result.op = "get_card" /\ result.id \in issued)
    => /\ result.found
       /\ "content" \in DOMAIN result.value
       /\ IsSubstring(CreatedContent(result.value), result.value.content)

\* C6: on one indexer handle, after index_all a search by the title of a
\* card the handle knows returns it; a card created later has no row before
\* update_card is called for it; and after update_card(id) for a card of the
\* card index, a search by its title returns it.
C6_UpsertMakesSearchable ==
  /\ result.op = "index_all"
       => \A id \in DOMAIN idx.card_index :
            id \in SearchIds(idx.card_index[id].title)
  /\ (result.op = "update_card" /\ result.id \in DOMAIN card_index)
       => result.id \in SearchIds(card_index[result.id].title)

\* C7: create_zettel_card returns the card record or an error result at
\* every failure point; no exception reaches the caller.
C7_CreateNeverThrows ==
  result.op = "create" => result.kind \in { "card", "error" }

\* C8: when any I/O step of create_zettel_card fails, the saves of the
\* numbering scheme, the card index and the graph included, the call returns
\* the error result and not the card record.
C8_IOFailureReturnsError ==
  (result.op = "create" /\ result.failed # {}) => result.kind = "error"

\* The first of a..z that ends no existing
\* child, "aa" when there is none.
FirstFreeLetter(existing) ==
  LET used == { Last(existing[i]) : i \in 1..Len(existing) }
      free == { i \in 1..NumLetters : Alphabet[i] \notin used }
  IN  IF free = {} THEN << "a", "a" >>
      ELSE << Alphabet[CHOOSE i \in free : \A j \in free : i <= j] >>

C10_EndToEndIds ==
  e2e.live =>
    \A i \in 1..Len(e2e.calls) :
       e2e.calls[i].kind = "card"
         => e2e.calls[i].number = << << "1" >>, << "2" >>, << "1", "a" >> >>[i]

\* C10's case: the three calls were made and each returned its card.
C10_Witness ==
  /\ e2e.live /\ Len(e2e.calls) = 3
  /\ \A i \in 1..3 : e2e.calls[i].kind = "card"

\* ----------------------------------------------------------------- C11
\* The ids and target lists of direct _add_cross_references calls.
EdgeIds == { << "1" >>, << "2" >>, << "3" >> }
EdgeTargets ==
  { << >>, << << "1" >> >>, << << "2" >>, << "3" >> >>, << << "3" >>, << "3" >> >> }

\* The cross-reference graph driven directly, with saves that can fail, and
\* restarts of the store.
NextEdges ==
  \/ \E source \in EdgeIds, targets \in EdgeTargets, out \in FailingOutcomes :
       AddCrossReferences(source, targets, out)
  \/ Reload("ok")

SpecEdges == Init /\ [][NextEdges]_vars

\* No id occurs twice in an adjacency list.
NoDuplicates(graph) ==
  \A a \in DOMAIN graph :
     \A i, j \in 1..Len(graph[a]) : graph[a][i] = graph[a][j] => i = j

\* The edge between a and b is recorded, in one direction or the other.
HasEdge(graph, a, b) ==
  \/ a \in DOMAIN graph /\ b \in Range(graph[a])
  \/ b \in DOMAIN graph /\ a \in Range(graph[b])

\* The map that holds exactly the edges 1-2 and 1-3, each id listed once.
TwoEdges ==
  [k \in EdgeIds |-> IF k = << "1" >> THEN << << "2" >>, << "3" >> >>
                     ELSE << << "1" >> >>]

\* C11: _add_cross_references never stores an id twice in an adjacency list,
\* and a call all of whose edges are already recorded, in either direction,
\* leaves the adjacency map as it was; so add(1,[2,3]) on the empty map gives
\* exactly the edges 1-2 and 1-3 and a following add(2,[1]) changes nothing.
C11_AddEdgesIdempotent ==
  /\ NoDuplicates(cross_references)
  /\ result.op = "add_cross_references" =>
       /\ (\A i \in 1..Len(result.targets) :
              HasEdge(result.before, result.source, result.targets[i]))
            => cross_references = result.before
       /\ (result.before = EmptyMap /\ result.source = << "1" >>
             /\ result.targets = << << "2" >>, << "3" >> >>)
            => cross_references = TwoEdges

\* C11's case: add(2,[1]) was called on the map add(1,[2,3]) built, and the
\* map is still that one.
C11_Witness ==
  /\ result.op = "add_cross_references"
  /\ result.source = << "2" >> /\ result.targets = << << "1" >> >>
  /\ result.before = TwoEdges
  /\ cross_references = TwoEdges

\* ----------------------------------------------------------------- C12
ThematicTitles ==
  { << "a", " ", "b" >>, << "a" >>, << "B", "-", "a", " ", "c" >> }
ThematicTexts == { << "A", " ", "b" >>, << "a", " ", "a" >>, << "c" >> }
CandidateLists ==
  { << >>, << << "1" >> >>, << << "2" >>, << "1" >> >>, << << "9" >> >> }

\* Suggestions of related cards on a store without I/O failures.
NextThematic ==
  \/ CreateStep({ MAIN }, ThematicTitles, { << >> }, { << >> }, { FALSE },
                { "ok" }, { TRUE }, MaxCards)
  \/ \E content \in ThematicTexts, cards \in CandidateLists :
       FindThematic(content, cards)

SpecThematic == Init /\ [][NextThematic]_vars

\* C12: find_thematic_connections(text, candidates) returns only ids of the
\* candidate list it was given, the empty list included, and only ids whose
\* card_index title shares at least two distinct case-folded words with the
\* text.
C12_ThematicOnlyCandidates ==
  result.op = "find_thematic" =>
    \A i \in 1..Len(result.value) :
       /\ result.value[i] \in Range(result.candidates)
       /\ result.value[i] \in DOMAIN card_index
       /\ Cardinality(WordSet(result.content)
                        \cap WordSet(card_index[result.value[i]].title)) >= 2

\* ----------------------------------------------------------- C13, C14
\* The allocator under each rule table, with categories that are buckets,
\* the generic subtopic category, a parent with a child part and a category
\* that is none of these.
NextRules ==
  \E c \in { MAIN, QUOTE, SUBTOPIC, << "x" >>, << "x", "/", "y" >> } :
     Allocate(c, "ok", MaxKids)

SpecRules == Init /\ [][NextRules]_vars

\* The category names a parent: it has a "/" part or is a main topic of the
\* scheme.
ParentQualified(category) ==
  \/ HasSlash(category)
  \/ category \in Range(numbering_scheme.main_topics)

\* C13: generate_zettel_number returns "unknown" whenever the category has
\* no rule, is not one of the buckets main, frequent, quote and does not name
\* a parent.
C13_UnknownSentinel ==
  (result.op = "allocate" /\ result.kind = "id"
     /\ result.category \notin DOMAIN rules
     /\ result.category \notin CounterBuckets
     /\ ~ParentQualified(result.category))
    => result.number = UNKNOWN

\* C14: generate_zettel_number returns an id and does not raise, for every
\* category and every rule table, one whose rule names a counter the scheme
\* lacks included; a bucket then gets the id of its built-in counter.
C14_AllocateNeverRaises ==
  result.op = "allocate" =>
    /\ result.kind = "id"
    /\ result.category \in CounterBuckets => IsCounterId(result.number)

\* ----------------------------------------------------------------- C15
\* C15: when generate_zettel_number returns, numbering_scheme.json holds the
\* scheme that is in memory, for every allocation.
C15_WriteThrough ==
  (result.op = "allocate" /\ result.kind = "id")
    => disk.scheme = OkDoc(numbering_scheme)

\* ----------------------------------------------------------------- C16
\* C16: every create_zettel_card call that returns a card adds exactly one
\* entry to card_index and one card document, and leaves the entry and the
\* document of every card created before as they were.
C16_CardsAppendOnly ==
  [][(result'.op = "create" /\ result'.kind = "card" /\ clock' = clock + 1)
       => LET number == result'.number
              path == CardFile(result'.category, number)
          IN  /\ number \notin DOMAIN card_index
              /\ DOMAIN card_index' = DOMAIN card_index \cup { number }
              /\ \A id \in DOMAIN card_index : card_index'[id] = card_index[id]
              /\ path \notin DOMAIN files
              /\ path \in DOMAIN files'
              /\ \A f \in DOMAIN files \ { ExtraFile } : files'[f] = files[f]]_vars

\* ----------------------------------------------------------------- C17
\* The place of a step in a call's log.
Pos(log, step) == CHOOSE i \in 1..Len(log) : log[i] = step

\* C17: within one create_zettel_card call that returns a card, the card
\* document is written, then the id is registered and card_index.json is
\* saved, and only then are the edges added and cross_references.json saved.
C17_IndexSavedBeforeGraph ==
  (result.op = "create" /\ result.kind = "card")
    => /\ Pos(result.log, "write_card") < Pos(result.log, "register")
       /\ Pos(result.log, "register") < Pos(result.log, "save_index")
       /\ "save_graph" \in Range(result.log)
            => /\ Pos(result.log, "save_index") < Pos(result.log, "add_edges")
               /\ Pos(result.log, "add_edges") < Pos(result.log, "save_graph")

\* ----------------------------------------------------------------- C18
\* create_zettel_card alone, with file writes and saves that can fail.
NextFail ==
  CreateStep({ MAIN }, { << "R", "a" >> },
             { << >>, << << "2" >> >> }, { Tags }, BOOLEAN,
             FailingOutcomes, BOOLEAN, MaxCards)

SpecFail == Init /\ [][NextFail]_vars

\* The scheme lists the id as allocated.
IdAllocated(scheme, id) ==
  \/ id \in Range(scheme.main_topics) \cup Range(scheme.frequently_accessed)
            \cup Range(scheme.quotes_excerpts)
  \/ \E p \in DOMAIN scheme.subtopics : id \in Range(scheme.subtopics[p])

\* The failures the except clause of create_zettel_card turns into a result.
CaughtFailures == { "error_write", "error_mirror" }

CreatedTags(doc) == { t \in Range(Tags) : Hashtag(t) \in Range(doc.ai_hashtags) }

\* C19: the related-cards section of a card being created lists exactly the
\* other indexed cards whose tags or title words overlap the new card's; an
\* earlier card created with a tag the new card carries is listed even when
\* the titles share no word.
C19_RelatedCardsByTagOrTitle ==
  (result.op = "create" /\ result.kind = "card")
    => LET doc == files[CardFile(result.category, result.number)]
           others == DOMAIN card_index \ { result.number }
           related(n) ==
             \/ Range(result.card.tags)
                   \cap CreatedTags(files[card_index[n].file_path]) # {}
             \/ Range(Words(Lower(result.card.title)))
                   \cap Range(Words(Lower(card_index[n].title))) # {}
       IN  { c.num : c \in doc.connections } = { n \in others : related(n) }

\* ----------------------------------------------------------------- C20
\* C20: index_all leaves the table with exactly one row for each id of the
\* persisted card_index.json, cards created after the handle was opened
\* included.
C20_RebuildMakesConsistent ==
  result.op = "index_all"
    => DOMAIN db = DOMAIN load_metadata(disk.index, EmptyMap)

\* ----------------------------------------------------------------- C21
\* The search index on a store whose card-index saves can fail and that is
\* restarted: card_index.json can lose the ids of earlier cards.
NextPurge ==
  \/ CreateStep({ MAIN }, { << "R", "a" >> }, { << >> }, { Tags }, { FALSE },
                { "ok", "truncated" }, { TRUE }, MaxScenarioCards)
  \/ Reload("ok")
  \/ OpenIndexer
  \/ IndexAll
  \/ \E id \in ReadIds : UpdateCard(id)

SpecPurge == Init /\ [][NextPurge]_vars

\* C21 as stated: once the table has a row for an id, it has a row for that
\* id after every later index_all and update_card, also when the id is no
\* longer in the card index.
C21_RowsNeverPurged == [][DOMAIN db \subseteq DOMAIN db']_vars

\* C21, amended: update_card never removes a row; index_all clears the table
\* and leaves exactly the rows of the ids in the handle's copy of the card
\* index, so it removes the row of an id that is no longer there; nothing
\* else changes the table.
C21_OnlyRebuildPurges ==
  [][/\ result'.op = "update_card" => DOMAIN db \subseteq DOMAIN db'
     /\ result'.op = "index_all" => DOMAIN db' = DOMAIN idx.card_index
     /\ result'.op \notin { "index_all", "update_card" } => db' = db]_vars

\* C21's case: an index_all removed the row of an id that its handle's card
\* index no longer has.
C21_Witness ==
  /\ result.op = "index_all"
  /\ result.purged # {}
  /\ result.purged \cap DOMAIN db = {}

\* ----------------------------------------------------------------- C22
RaceTargets == { << << "2" >> >>, << << "3" >> >> }

\* Two instances on the same folders, called in any order without
\* serialization; every save succeeds.
NextRace ==
  \/ \E c \in { MAIN, QUOTE } : Allocate(c, "ok", MaxKids)
  \/ \E c \in { MAIN, QUOTE } : PeerAllocate(c, "ok", MaxKids)
  \/ \E targets \in RaceTargets : AddCrossReferences(<< "1" >>, targets, "ok")
  \/ \E targets \in RaceTargets :
       PeerAddCrossReferences(<< "1" >>, targets, "ok")
  \/ OpenPeer("ok")

SpecRace == Init /\ [][NextRace]_vars

\* C22: when two instances hold the same scheme (or adjacency map) and each
\* allocates in the same bucket (or adds edges), the second returns the id
\* the first returned, and the persisted document is the second writer's,
\* without the first writer's update: the bucket's counter has advanced by
\* one, not two, and an edge only the first added is not in the document.
C22_LastWriterWins ==
  /\ (result.op = "peer_allocate" /\ result.raced
        /\ result.first.category = result.category)
       => /\ result.number = result.first.number
          /\ disk.scheme = OkDoc(peer.numbering_scheme)
          /\ disk.scheme.data = numbering_scheme
  /\ (result.op = "peer_add_cross_references" /\ result.raced)
       => /\ disk.graph = OkDoc(peer.cross_references)
          /\ \A i \in 1..Len(result.first.targets) :
               (/\ ~HasEdge(result.before, result.first.source,
                            result.first.targets[i])
                /\ \A j \in 1..Len(result.targets) :
                     { result.source, result.targets[j] }
                       # { result.first.source, result.first.targets[i] })
                 => ~HasEdge(disk.graph.data, result.first.source,
                             result.first.targets[i])

\* The other half of C22's case: the first instance added the edge 1-2 and
\* the second the edge 1-3 to the same map, and the document lacks 1-2.
RacedEdges ==
  /\ result.op = "peer_add_cross_references" /\ result.raced
  /\ result.first.targets = << << "2" >> >>
  /\ result.targets = << << "3" >> >>
  /\ ~HasEdge(disk.graph.data, << "1" >>, << "2" >>)
  /\ HasEdge(cross_references, << "1" >>, << "2" >>)

\* C22's case: after one main allocation each, both instances allocated in
\* the main bucket from the same scheme and got the same id "2".
C22_Witness ==
  /\ result.op = "peer_allocate" /\ result.raced
  /\ result.category = MAIN /\ result.first.category = MAIN
  /\ result.number = result.first.number
  /\ result.number = << "2" >>
  /\ disk.scheme.data.last_main_topic = 2

\* ----------------------------------------------------------------- C23
\* C23: create_zettel_card leaves the table of the search index as it was,
\* so the card it returns has no row (and search and get_card of the index
\* cannot return it) when the call ends.
C23_CreateLeavesIndexAlone ==
  [][(result'.op = "create" /\ clock' = clock + 1)
       => /\ db' = db
          /\ idx' = idx
          /\ result'.kind = "card" => result'.number \notin DOMAIN db']_vars

\* C23's case: a card was created while an open handle had indexed an
\* earlier card; the new card has no row.
C23_Witness ==
  /\ result.op = "create" /\ result.kind = "card"
  /\ idx.open /\ db # EmptyMap
  /\ result.number \in DOMAIN card_index
  /\ result.number \notin DOMAIN db

\* ----------------------------------------------------------------- C24
\* One store instance whose graph is extended by direct calls and by card
\* creations, with graph saves that can fail in either way; no restart.
NextGrow ==
  \/ \E targets \in RaceTargets, out \in SaveOutcomes :
       AddCrossReferences(<< "1" >>, targets, out)
  \/ CreateStep({ MAIN }, { << "R", "a" >> }, { << >>, << << "9" >> >> },
                { Tags }, { FALSE }, { "ok" }, { TRUE }, MaxCards)

SpecGrow == Init /\ [][NextGrow]_vars

\* The directed entries of an adjacency map.
Edges(graph) ==
  UNION { { << a, graph[a][i] >> : i \in 1..Len(graph[a]) } : a \in DOMAIN graph }

\* The entries that can be read from cross_references.json.
DocEdges(doc) == IF doc.state = "ok" THEN Edges(doc.data) ELSE {}

\* C24: on one store instance every edge of the adjacency map in memory and
\* every edge of the persisted graph document is still there after every
\* later operation.
C24_GraphOnlyGrows ==
  [][/\ Edges(cross_references) \subseteq Edges(cross_references')
     /\ DocEdges(disk.graph) \subseteq DocEdges(disk'.graph)]_vars

\* ----------------------------------------------------------------- C25
\* C25: a persisted document that cannot be decoded gives the empty default
\* and no failure: the scheme, the graph and the card index when a store is
\* constructed, and card_index.json when a ZettelIndexer is constructed.
C25_DecodeFailureDefaults ==
  /\ result.op = "reload" =>
       /\ disk.graph.state = "corrupt" => cross_references = EmptyMap
       /\ disk.index.state = "corrupt" => card_index = EmptyMap
       /\ result.fresh => numbering_scheme = EmptyScheme
  /\ result.op = "open_indexer" =>
       /\ result.kind = "ok"
       /\ disk.index.state = "corrupt" => idx.card_index = EmptyMap

\* ----------------------------------------------------------------- C26
ReadOps ==
  { "find_thematic", "find_zettel_connections", "get_card", "search_cards",
    "get_statistics" }

\* The read operations on a store with cards and edges, without I/O
\* failures.
NextFrame ==
  \/ CreateStep({ MAIN }, Titles, { << >>, << << "1" >> >> },
                { Tags }, { FALSE }, { "ok" }, { TRUE }, MaxCards)
  \/ \E id \in ReadIds : GetCard(id)
  \/ \E q \in Queries : SearchCards(q)
  \/ \E content \in ThematicTexts, cards \in { << >>, << << "1" >> >> } :
       FindThematic(content, cards)
  \/ \E title \in Titles : FindZettelConnections(<< "2" >>, title, Tags)
  \/ GetStatistics

SpecFrame == Init /\ [][NextFrame]_vars

\* C26: find_thematic_connections, _find_zettel_connections, get_card,
\* search_cards and get_statistics leave the graph, the numbering scheme, the
\* set of ids of card_index, the three persisted documents and the card
\* files as they were.
C26_ReadsChangeNothing ==
  [][result'.op \in ReadOps
       => /\ cross_references' = cross_references
          /\ numbering_scheme' = numbering_scheme
          /\ DOMAIN card_index' = DOMAIN card_index
          /\ disk' = disk
          /\ files' = files]_vars

\* C26's case: get_card normalized an entry in memory on a store that has
\* edges; the ids and the persisted card index are as before.
C26_Witness ==
  /\ result.op = "get_card" /\ result.found
  /\ cross_references # EmptyMap
  /\ disk.index.state = "ok"
  /\ DOMAIN disk.index.data = DOMAIN card_index
  /\ disk.index.data[result.id] # card_index[result.id]

\* ----------------------------------------------------------------- C27
\* The allocator and expand_thematic_structure on one store.
NextBuckets ==
  \/ \E c \in { MAIN, FREQUENT, QUOTE, << "1" >> } : Allocate(c, "ok", MaxKids)
  \/ \E base \in { << "1" >>, << "7" >> } : ExpandThematic(base, "ok", MaxKids)

SpecBuckets == Init /\ [][NextBuckets]_vars

\* The list holds prefix+1 .. prefix+counter, in this order.
ListsCounter(list, prefix, counter) ==
  /\ Len(list) = counter
  /\ \A i \in 1..Len(list) : list[i] = prefix \o Str(i)

BucketsConsistent(scheme) ==
  /\ ListsCounter(scheme.main_topics, << >>, scheme.last_main_topic)
  /\ ListsCounter(scheme.frequently_accessed, << "A" >>, scheme.last_frequent)
  /\ ListsCounter(scheme.quotes_excerpts, << "Z" >>, scheme.last_quote)

\* C27: under the built-in rules, in every state reached from the empty
\* scheme, each bucket's list has as many entries as its counter says and
\* lists prefix+1 .. prefix+counter in allocation order, whether the ids come
\* from generate_zettel_number or from expand_thematic_structure; the same
\* holds for the persisted scheme.
C27_ListsMatchCounters ==
  rules = RulesAbsent
    => /\ BucketsConsistent(numbering_scheme)
       /\ disk.scheme.state = "ok" => BucketsConsistent(disk.scheme.data)

\* C27's case: expand_thematic_structure made the second main topic after
\* generate_zettel_number made the first, and a frequent id was issued.
C27_Witness ==
  /\ rules = RulesAbsent
  /\ result.op = "expand" /\ result.newBase /\ result.base = << "2" >>
  /\ numbering_scheme.main_topics = << << "1" >>, << "2" >> >>
  /\ numbering_scheme.frequently_accessed = << << "A", "1" >> >>

ResetInMemory ==
  (result.op = "reload" /\ result.fresh)
    => /\ numbering_scheme = EmptyScheme
       /\ rules = RulesAbsent
            => generate_zettel_number(numbering_scheme, rules, MAIN).number = << "1" >>

\* C29: when a store is constructed and numbering_scheme.json is absent,
\* empty or undecodable, the scheme is reset to all counters 0 and empty
\* lists and numbering_scheme.json holds the reset scheme when the
\* constructor returns, whatever cards card_index holds, so that the next
\* main allocation returns "1".
C29_ResetAndPersisted ==
  /\ ResetInMemory
  /\ (result.op = "reload" /\ result.fresh) => disk.scheme = OkDoc(EmptyScheme)

\* ----------------------------------------------------------------- C30
\* C30: create_zettel_card does not check that the cross-reference ids it is
\* given exist: for every such id, one that card_index does not hold
\* included, the graph gets an adjacency list for the id, the id is in the
\* new card's list and the new card is in the id's list.
C30_EdgesToUnknownIds ==
  (result.op = "create" /\ result.kind = "card")
    => \A r \in Range(result.card.cross_references) :
         /\ r \in DOMAIN cross_references
         /\ result.number \in Range(cross_references[r])
         /\ r \in Range(cross_references[result.number])

\* C30's case: a card was created with a cross-reference to an id that
\* card_index does not hold, and the graph now has an id that is no card.
C30_Witness ==
  /\ result.op = "create" /\ result.kind = "card"
  /\ \E r \in Range(result.card.cross_references) :
       /\ r \notin DOMAIN card_index
       /\ r \in DOMAIN cross_references
       /\ result.number \in Range(cross_references[r])
  /\ ~(DOMAIN cross_references \subseteq DOMAIN card_index)

====
